---- MODULE Spec2Model ----
(***************************************************************************)
(* A model of SimpleAlpaca (src/src/simple_alpaca.py): the facade object   *)
(* that coerces simplified arguments, builds request values, forwards them *)
(* to the trading / historical-data / streaming delegates and normalises   *)
(* the responses.                                                          *)
(*                                                                         *)
(* Python strings are sequences of characters.  An ASCII character is the  *)
(* one-character string; a character outside ASCII is written by its code *)
(* point ("U+212A").  str.isdigit, str.isalpha, str.lower and int() are    *)
(* tabulated for the characters of Alphabet as Python 3.11 defines them    *)
(* and are not defined for any other character.  None is the record        *)
(* NoneArg; an optional number is Some(n).                                 *)
(*                                                                         *)
(* The object has no lock and its methods block inside the delegates, so a *)
(* public call can begin while another is in progress: from a second       *)
(* thread, or from the callback that run() invokes.  Each caller of        *)
(* Callers is one such line of control, with its own position, arguments   *)
(* and result; self.raw and self._ws are shared.  The delegates            *)
(* (TradingClient, StockHistoricalDataClient, StockDataStream) are outside *)
(* the repository: every call to one of them either raises or returns a    *)
(* value drawn from a bounded set.                                         *)
(***************************************************************************)
EXTENDS Integers, Sequences, FiniteSets

VARIABLES
    raw,            \* self.raw
    ws,             \* self._ws: 0 is None, n > 0 is the n-th StockDataStream built
    wsCreated,      \* number of StockDataStream objects constructed so far
    submitCount,    \* number of self._trade.submit_order calls made so far
    calls,          \* number of public calls begun
    pc,             \* per caller: idle, submit, in_submit, bars, in_bars, last_bar,
                    \*             in_last_bar, build, register, running, done
    op,             \* per caller: the public method being executed, with its arguments
    req,            \* per caller: the request value the method has built
    outcome,        \* per caller: what the finished call returned or raised
    log,            \* per caller: the delegate calls made by the current call, in order
    todo,           \* per caller: subscribe_price, the symbols not yet iterated
    built           \* per caller: _ensure_ws, the stream constructed and not yet
                    \*             stored in self._ws (0: none)

vars ==
    <<raw, ws, wsCreated, submitCount, calls, pc, op, req, outcome, log, todo, built>>

\* ------------------------------------------------------------------ bounds
MaxCalls == 2
MaxSyms == 2

\* The lines of control that call into the object
Callers == { "main", "other" }

\* ------------------------------------------------------------ Python strings
LowerLetters ==
    << "a","b","c","d","e","f","g","h","i","j","k","l","m",
       "n","o","p","q","r","s","t","u","v","w","x","y","z" >>

UpperLetters ==
    << "A","B","C","D","E","F","G","H","I","J","K","L","M",
       "N","O","P","Q","R","S","T","U","V","W","X","Y","Z" >>

Digits == << "0","1","2","3","4","5","6","7","8","9" >>

Punctuation ==
    { " ", "!", "#", "$", "%", "&", "(", ")", "*", "+", ",", "-", ".", "/",
      ":", ";", "<", "=", ">", "?", "@", "[", "]", "^", "_", "{", "|", "}", "~" }

IndexIn(seq, c) == CHOOSE i \in 1..Len(seq) : seq[i] = c

Occurs(seq, c) == \E i \in 1..Len(seq) : seq[i] = c

\* One row of Python's character properties: str.isdigit, the value int()
\* gives the character (-1 where int() refuses it), str.isalpha, str.lower,
\* and the number of bytes of the character in UTF-8
Char(c, digit, decimal, alpha, low, width) ==
    [c |-> c, isdigit |-> digit, decimal |-> decimal, isalpha |-> alpha,
     lower |-> low, width |-> width]

\* SUPERSCRIPT TWO and ONE are digits that int() refuses; FULLWIDTH DIGIT ONE
\* and ARABIC-INDIC DIGIT THREE are decimal digits; e-acute, E-acute, sharp s,
\* KELVIN SIGN (lower-cases to k) and I WITH DOT ABOVE (lower-cases to i and
\* COMBINING DOT ABOVE) are letters; COMBINING DOT ABOVE is neither.
CharTable ==
    { Char(Digits[i], TRUE, i - 1, FALSE, << Digits[i] >>, 1) : i \in 1..Len(Digits) }
    \cup { Char(LowerLetters[i], FALSE, -1, TRUE, << LowerLetters[i] >>, 1) :
               i \in 1..Len(LowerLetters) }
    \cup { Char(UpperLetters[i], FALSE, -1, TRUE, << LowerLetters[i] >>, 1) :
               i \in 1..Len(UpperLetters) }
    \cup { Char(c, FALSE, -1, FALSE, << c >>, 1) : c \in Punctuation }
    \cup { Char("U+00B2", TRUE, -1, FALSE, << "U+00B2" >>, 2),
           Char("U+00B9", TRUE, -1, FALSE, << "U+00B9" >>, 2),
           Char("U+FF11", TRUE, 1, FALSE, << "U+FF11" >>, 3),
           Char("U+0663", TRUE, 3, FALSE, << "U+0663" >>, 2),
           Char("U+00E9", FALSE, -1, TRUE, << "U+00E9" >>, 2),
           Char("U+00C9", FALSE, -1, TRUE, << "U+00E9" >>, 2),
           Char("U+00DF", FALSE, -1, TRUE, << "U+00DF" >>, 2),
           Char("U+212A", FALSE, -1, TRUE, << "k" >>, 3),
           Char("U+0130", FALSE, -1, TRUE, << "i", "U+0307" >>, 2),
           Char("U+0307", FALSE, -1, FALSE, << "U+0307" >>, 2) }

Alphabet == { e.c : e \in CharTable }

CharInfo == [c \in Alphabet |-> CHOOSE e \in CharTable : e.c = c]

\* str.isdigit / str.isalpha on one character
isdigit(c) == CharInfo[c].isdigit

isalpha(c) == CharInfo[c].isalpha

\* str.lower on one character: a string, not always of length one
lower_char(c) == CharInfo[c].lower

\* str.lower
RECURSIVE lower(_)
lower(s) == IF s = << >> THEN << >> ELSE lower_char(Head(s)) \o lower(Tail(s))

\* str.startswith
startswith(s, prefix) ==
    Len(s) >= Len(prefix) /\ SubSeq(s, 1, Len(prefix)) = prefix

\* s[:n]
slice_to(s, n) == SubSeq(s, 1, IF Len(s) < n THEN Len(s) ELSE n)

\* ''.join(filter(str.isdigit, s)) and ''.join(filter(str.isalpha, s))
digits_of(s) == SelectSeq(s, isdigit)

letters_of(s) == SelectSeq(s, isalpha)

\* The number a string of decimal digits denotes
RECURSIVE decimal_value(_)
decimal_value(d) ==
    IF d = << >> THEN 0
    ELSE 10 * decimal_value(SubSeq(d, 1, Len(d) - 1)) + CharInfo[d[Len(d)]].decimal

\* sys.get_int_max_str_digits(): the longest string of digits int() converts
MaxStrDigits == 4300

\* int(d) for a string of str.isdigit characters: ValueError for the empty
\* string, for a digit that is not a decimal digit and for more than
\* MaxStrDigits digits
int_of(d) ==
    IF \/ d = << >>
       \/ \E i \in 1..Len(d) : CharInfo[d[i]].decimal < 0
       \/ Len(d) > MaxStrDigits
    THEN [raised |-> "ValueError", n |-> 0]
    ELSE [raised |-> "", n |-> decimal_value(d)]

\* ---------------------------------------------------------- optional numbers
NoneArg == [some |-> FALSE, v |-> 0]

Some(n) == [some |-> TRUE, v |-> n]

\* Python truthiness of a float | None argument
Truthy(x) == x.some /\ x.v # 0

\* ------------------------------------------------------------ side and tif
\* OrderSide members, by value
OrderSideBUY == "buy"

OrderSideSELL == "sell"

\* Variant: the side is compared without lower()
_side_CaseSensitive(side) ==
    IF startswith(side, << "b" >>) THEN OrderSideBUY ELSE OrderSideSELL

\* side.lower().startswith("b")
_side(side) ==
    IF startswith(lower(side), << "b" >>) THEN OrderSideBUY ELSE OrderSideSELL

\* The values of the TimeInForce members the wrapper documents.  A member is
\* represented by its value.
TimeInForceValues ==
    { << "d","a","y" >>, << "g","t","c" >>, << "i","o","c" >>, << "f","o","k" >> }

NoMember == << >>

\* TimeInForce(value): the member with that value, or ValueError
TimeInForce(value) ==
    IF value \in TimeInForceValues
    THEN [raised |-> "", member |-> value]
    ELSE [raised |-> "ValueError", member |-> NoMember]

\* A tif argument is [typed |-> TRUE, v |-> member] for a TimeInForce value
\* and [typed |-> FALSE, v |-> string] for a str.
\* Variant: the string is looked up without lower()
_tif_NoLower(tif) ==
    IF tif.typed THEN [raised |-> "", member |-> tif.v] ELSE TimeInForce(tif.v)

\* Variant: an unknown string falls back to day instead of raising
_tif_DefaultDay(tif) ==
    IF tif.typed THEN [raised |-> "", member |-> tif.v]
    ELSE IF lower(tif.v) \in TimeInForceValues
         THEN TimeInForce(lower(tif.v))
         ELSE [raised |-> "", member |-> << "d","a","y" >>]

\* isinstance(tif, TimeInForce) ? tif : TimeInForce(tif.lower())
_tif(tif) ==
    IF tif.typed THEN [raised |-> "", member |-> tif.v] ELSE TimeInForce(lower(tif.v))

\* ------------------------------------------------------------- timeframes
\* TimeFrame(amount, unit), the SDK's value
TimeFrame(amount, unit) == [amount |-> amount, unit |-> unit]

NoTimeFrame == [amount |-> 0, unit |-> "none"]

\* The dict literal of _tf_parse
UnitTable ==
    { [key |-> << "m","i","n" >>,     unit |-> "Minute"],
      [key |-> << "h","o","u","r" >>, unit |-> "Hour"],
      [key |-> << "d","a","y" >>,     unit |-> "Day"] }

\* Variant: a missing key falls back to Minute (dict.get with a default)
unit_lookup_DefaultMinute(key) ==
    IF \E e \in UnitTable : e.key = key
    THEN [raised |-> "", unit |-> (CHOOSE e \in UnitTable : e.key = key).unit]
    ELSE [raised |-> "", unit |-> "Minute"]

\* {...}[key]: the unit, or KeyError
unit_lookup(key) ==
    IF \E e \in UnitTable : e.key = key
    THEN [raised |-> "", unit |-> (CHOOSE e \in UnitTable : e.key = key).unit]
    ELSE [raised |-> "KeyError", unit |-> "none"]

\* A timeframe argument is [isStr |-> TRUE, s |-> string, n |-> 0] for a str
\* and [isStr |-> FALSE, s |-> <<>>, n |-> number] for an int.  For a str the
\* number is converted first, then the unit is looked up.
_tf_parse(timeframe, unit) ==
    IF timeframe.isStr
    THEN LET num      == int_of(digits_of(timeframe.s))
             unit_str == lower(letters_of(timeframe.s))
             u        == unit_lookup(slice_to(unit_str, 3))
         IN  IF num.raised # ""
             THEN [raised |-> num.raised, tf |-> NoTimeFrame]
             ELSE IF u.raised # ""
             THEN [raised |-> u.raised, tf |-> NoTimeFrame]
             ELSE [raised |-> "", tf |-> TimeFrame(num.n, u.unit)]
    ELSE [raised |-> "", tf |-> TimeFrame(timeframe.n, unit)]

\* ------------------------------------------------------------------ dates
\* datetime.fromisoformat as Python 3.11 computes it: the place of the
\* separator, the date (calendar or ISO week form, with or without dashes),
\* then the time of day with its fraction and UTC offset, and at last the
\* range checks of the datetime and timezone constructors.  Offsets into a
\* string count from 0; past its end a string reads as the terminator "".
\* tzinfo: aware is FALSE for a naive datetime, else the offset is the
\* timedelta (days, seconds, microseconds).
NoTz == [aware |-> FALSE, days |-> 0, seconds |-> 0, microseconds |-> 0]

NoDate ==
    [y |-> 0, m |-> 0, d |-> 0, hour |-> 0, minute |-> 0, second |-> 0,
     microsecond |-> 0, tz |-> NoTz]

\* datetime(y, m, d): midnight, naive
Midnight(y, m, d) == [NoDate EXCEPT !.y = y, !.m = m, !.d = d]

\* The parser reads the UTF-8 bytes of the string.  A byte of an ASCII
\* character is the character; a character outside ASCII is a lead byte that
\* tells its width, then continuation bytes.
RECURSIVE utf8(_)
utf8(s) ==
    IF s = << >> THEN << >>
    ELSE LET width == CharInfo[Head(s)].width
         IN  (IF width = 1 THEN << Head(s) >>
              ELSE IF width = 2 THEN << "lead2", "cont" >>
              ELSE IF width = 3 THEN << "lead3", "cont", "cont" >>
              ELSE << "lead4", "cont", "cont", "cont" >>) \o utf8(Tail(s))

\* The bytes the separator between date and time takes
separator_width(b) ==
    IF b = "lead3" THEN 3
    ELSE IF b = "lead4" THEN 4
    ELSE IF b \in { "lead2", "cont" } THEN 2
    ELSE 1

CharAt(s, p) == IF p >= 0 /\ p < Len(s) THEN s[p + 1] ELSE ""

\* An ASCII digit
is_digit(c) == Occurs(Digits, c)

\* The value of the n ASCII digits of s from offset p, or -1
RECURSIVE parse_digits(_, _, _)
parse_digits(s, p, n) ==
    IF n = 0 THEN 0
    ELSE LET head == parse_digits(s, p, n - 1)
             c    == CharAt(s, p + n - 1)
         IN  IF head < 0 \/ ~ is_digit(c) THEN -1
             ELSE 10 * head + (IndexIn(Digits, c) - 1)

\* The first offset from idx on that holds no digit
RECURSIVE digits_end(_, _)
digits_end(s, idx) ==
    IF idx < Len(s) /\ is_digit(CharAt(s, idx)) THEN digits_end(s, idx + 1) ELSE idx

\* Where the date ends: offset 7, 8 or 10, or -1
find_isoformat_datetime_separator(s) ==
    LET len == Len(s)
    IN  IF len = 7 THEN 7
        ELSE IF CharAt(s, 4) = "-"
        THEN IF CharAt(s, 5) = "W"
             THEN IF len > 8 /\ CharAt(s, 8) = "-"
                  THEN IF len = 9 THEN -1
                       ELSE IF len > 10 /\ is_digit(CharAt(s, 10)) THEN 8
                       ELSE 10
                  ELSE 8
             ELSE 10
        ELSE IF CharAt(s, 4) = "W"
        THEN LET idx == digits_end(s, 7)
             IN  IF idx < 9 THEN idx ELSE IF idx % 2 = 0 THEN 7 ELSE 8
        ELSE 8

is_leap(y) == (y % 4 = 0 /\ y % 100 # 0) \/ y % 400 = 0

DaysInMonth(y, m) ==
    IF m \in {4, 6, 9, 11} THEN 30
    ELSE IF m # 2 THEN 31
    ELSE IF is_leap(y) THEN 29
    ELSE 28

days_before_year(y) ==
    (y - 1) * 365 + ((y - 1) \div 4) - ((y - 1) \div 100) + ((y - 1) \div 400)

RECURSIVE days_before_month(_, _)
days_before_month(y, m) ==
    IF m = 1 THEN 0 ELSE days_before_month(y, m - 1) + DaysInMonth(y, m - 1)

ymd_to_ord(y, m, d) == days_before_year(y) + days_before_month(y, m) + d

\* Monday is 0
weekday(y, m, d) == (ymd_to_ord(y, m, d) + 6) % 7

\* The ordinal of the Monday that begins ISO week 1 of the year
iso_week1_monday(year) ==
    LET first_day     == ymd_to_ord(year, 1, 1)
        first_weekday == (first_day + 6) % 7
        week1_monday  == first_day - first_weekday
    IN  IF first_weekday > 3 THEN week1_monday + 7 ELSE week1_monday

\* The date with that ordinal, which falls in the year near or next to it
day_of_month(y, m, n) == [ok |-> TRUE, y |-> y, m |-> m, d |-> n - days_before_month(y, m)]

day_of_year(y, n) ==
    day_of_month(y,
                 CHOOSE c \in 1..12 :
                     days_before_month(y, c) < n
                         /\ n <= days_before_month(y, c) + DaysInMonth(y, c),
                 n)

ordinal_in_year(ordinal, y) == day_of_year(y, ordinal - days_before_year(y))

ord_to_ymd(ordinal, near) ==
    ordinal_in_year(ordinal,
                    CHOOSE c \in (near - 1)..(near + 1) :
                        days_before_year(c) < ordinal
                            /\ ordinal <= days_before_year(c + 1))

NoYmd == [ok |-> FALSE, y |-> 0, m |-> 0, d |-> 0]

\* A year has ISO week 53 when it begins on a Thursday, or on a Wednesday
\* and is a leap year
has_week_53(iso_year, first_weekday) ==
    first_weekday = 3 \/ (first_weekday = 2 /\ is_leap(iso_year))

\* ISO year, week, day to year, month, day
iso_to_ymd(iso_year, iso_week, iso_day) ==
    IF iso_year < 1 \/ iso_year > 9999 THEN NoYmd
    ELSE IF \/ iso_week <= 0
            \/ iso_week > 53
            \/ iso_week = 53 /\ ~ has_week_53(iso_year, weekday(iso_year, 1, 1))
    THEN NoYmd
    ELSE IF iso_day <= 0 \/ iso_day >= 8 THEN NoYmd
    ELSE ord_to_ymd(iso_week1_monday(iso_year) + (iso_week - 1) * 7 + iso_day - 1,
                    iso_year)

\* YYYY-Www-D, YYYY-Www, YYYYWwwD or YYYYWww: q is the offset after the week,
\* has_day whether the text goes on
week_date(s, year, uses_separator, q, has_day, iso_week) ==
    IF iso_week < 0 THEN NoYmd
    ELSE IF ~ has_day THEN iso_to_ymd(year, iso_week, 1)
    ELSE IF uses_separator /\ CharAt(s, q) # "-" THEN NoYmd
    ELSE iso_to_ymd(year, iso_week,
                    parse_digits(s, IF uses_separator THEN q + 1 ELSE q, 1))

\* YYYY-MM-DD or YYYYMMDD: q is the offset after the month
calendar_date(s, year, uses_separator, q, month) ==
    IF month < 0 THEN NoYmd
    ELSE IF uses_separator /\ CharAt(s, q) # "-" THEN NoYmd
    ELSE [ok |-> TRUE, y |-> year, m |-> month,
          d |-> parse_digits(s, IF uses_separator THEN q + 1 ELSE q, 2)]

date_after_year(s, len, year, uses_separator, p) ==
    IF year < 0 THEN NoYmd
    ELSE IF CharAt(s, p) = "W"
    THEN week_date(s, year, uses_separator, p + 3, len < 0 \/ p + 3 < len,
                   parse_digits(s, p + 1, 2))
    ELSE calendar_date(s, year, uses_separator, p + 2, parse_digits(s, p, 2))

\* A date whose digits could not be read is no date
checked_date(date) == IF date.ok /\ date.d < 0 THEN NoYmd ELSE date

\* The date of the first len characters of s (len -1: however many follow)
parse_isoformat_date(s, len) ==
    checked_date(date_after_year(s, len, parse_digits(s, 0, 4), CharAt(s, 4) = "-",
                                 IF CharAt(s, 4) = "-" THEN 5 ELSE 4))

\* rv: 0 all of the text was read, 1 text is left over, negative malformed
Hms(rv, vals, microsecond) ==
    [rv |-> rv, hour |-> vals[1], minute |-> vals[2], second |-> vals[3],
     microsecond |-> microsecond]

FractionCorrection == << 100000, 10000, 1000, 100, 10, 1 >>

fraction_read(t, vals, to_parse, digits, stop) ==
    IF digits < 0 THEN Hms(-3, vals, 0)
    ELSE Hms(IF CharAt(t, stop) # "" THEN 1 ELSE 0, vals,
             digits * FractionCorrection[to_parse])

fraction_of(t, p, vals, to_parse) ==
    fraction_read(t, vals, to_parse, parse_digits(t, p, to_parse),
                  digits_end(t, p + to_parse))

\* The fraction of a second that begins at offset p of t and ends before end:
\* at most six digits count, further digits are skipped
parse_fraction(t, end, p, vals) ==
    fraction_of(t, p, vals, IF end - p >= 6 THEN 6 ELSE end - p)

\* HH[:MM[:SS[.ffffff]]] or HH[MM[SS[.ffffff]]] at the start of t, which ends
\* before offset end; i is the component about to be read, at offset p.
\* component: the two digits v were read, c follows them, q is the offset
\* after c, sep whether the components are separated by colons
RECURSIVE parse_hh_mm_ss_ff(_, _, _, _, _, _)
RECURSIVE component(_, _, _, _, _, _, _, _)
component(t, end, i, q, sep, read, v, c) ==
    IF v < 0 THEN Hms(-3, read, 0)
    ELSE IF q >= end THEN Hms(IF c # "" THEN 1 ELSE 0, read, 0)
    ELSE IF sep /\ c = ":" THEN parse_hh_mm_ss_ff(t, end, i + 1, q, sep, read)
    ELSE IF c \in { ".", "," } THEN parse_fraction(t, end, q, read)
    ELSE IF ~ sep THEN parse_hh_mm_ss_ff(t, end, i + 1, q - 1, sep, read)
    ELSE Hms(-4, read, 0)

parse_hh_mm_ss_ff(t, end, i, p, has_separator, vals) ==
    IF i = 3 THEN parse_fraction(t, end, p, vals)
    ELSE component(t, end, i, p + 3,
                   IF i = 0 THEN CharAt(t, p + 2) = ":" ELSE has_separator,
                   [vals EXCEPT ![i + 1] = parse_digits(t, p, 2)],
                   parse_digits(t, p, 2), CharAt(t, p + 2))

\* The first offset of t that holds Z, + or -, or the length of t
RECURSIVE tzinfo_pos(_, _)
tzinfo_pos(t, k) ==
    IF k >= Len(t) \/ CharAt(t, k) \in { "Z", "+", "-" } THEN k
    ELSE tzinfo_pos(t, k + 1)

NoTime ==
    [rv |-> -1, hour |-> 0, minute |-> 0, second |-> 0, microsecond |-> 0,
     tzoffset |-> 0, tzmicrosecond |-> 0]

\* The time of day that was read, with no offset yet
time_read(rv, time) ==
    [NoTime EXCEPT !.rv = rv, !.hour = time.hour, !.minute = time.minute,
                   !.second = time.second, !.microsecond = time.microsecond]

\* The offset after + or -; tz is what was read of it
with_offset(time, tzsign, tz) ==
    IF tz.rv # 0 THEN NoTime
    ELSE [time_read(1, time) EXCEPT
              !.tzoffset = tzsign * (tz.hour * 3600 + tz.minute * 60 + tz.second),
              !.tzmicrosecond = tzsign * tz.microsecond]

\* time is what was read before offset pos, where Z, + or - stands or t ends.
\* What is left over before an offset is ignored.
time_and_offset(t, pos, time) ==
    IF time.rv < 0 THEN NoTime
    ELSE IF pos >= Len(t) THEN (IF time.rv = 1 THEN NoTime ELSE time_read(0, time))
    ELSE IF CharAt(t, pos) = "Z"
    THEN (IF CharAt(t, pos + 1) # "" THEN NoTime ELSE time_read(1, time))
    ELSE with_offset(time, IF CharAt(t, pos) = "-" THEN -1 ELSE 1,
                     parse_hh_mm_ss_ff(SubSeq(t, pos + 2, Len(t)), Len(t) - pos - 1,
                                       0, 0, TRUE, << 0, 0, 0 >>))

time_before(t, pos) ==
    time_and_offset(t, pos, parse_hh_mm_ss_ff(t, pos, 0, 0, TRUE, << 0, 0, 0 >>))

\* The time of day and the UTC offset: rv 0 naive, 1 with an offset, negative
\* malformed
parse_isoformat_time(t) == time_before(t, tzinfo_pos(t, 0))

\* timedelta(seconds, microseconds), normalised
timedelta(seconds, microseconds) ==
    [aware |-> TRUE,
     days |-> (seconds + (microseconds \div 1000000)) \div 86400,
     seconds |-> (seconds + (microseconds \div 1000000)) % 86400,
     microseconds |-> microseconds % 1000000]

\* timezone(offset): the offset must lie strictly within a day
timezone(delta) ==
    IF \/ delta.days < -1
       \/ delta.days >= 1
       \/ delta.days = -1 /\ delta.seconds = 0 /\ delta.microseconds = 0
    THEN [raised |-> "ValueError", tz |-> NoTz]
    ELSE [raised |-> "", tz |-> delta]

\* No tzinfo for a naive time, UTC for a zero offset in seconds, else the
\* timezone of the offset
tzinfo_from_isoformat_results(rv, tzoffset, tzmicrosecond) ==
    IF rv # 1 THEN [raised |-> "", tz |-> NoTz]
    ELSE IF tzoffset = 0 THEN [raised |-> "", tz |-> [NoTz EXCEPT !.aware = TRUE]]
    ELSE timezone(timedelta(tzoffset, tzmicrosecond))

\* datetime(...): the range checks of the constructor
new_datetime(y, m, d, hour, minute, second, microsecond, tz) ==
    IF /\ y >= 1 /\ y <= 9999
       /\ m >= 1 /\ m <= 12
       /\ d >= 1 /\ d <= DaysInMonth(y, m)
       /\ hour <= 23 /\ minute <= 59 /\ second <= 59
    THEN [raised |-> "",
          dt |-> [y |-> y, m |-> m, d |-> d, hour |-> hour, minute |-> minute,
                  second |-> second, microsecond |-> microsecond, tz |-> tz]]
    ELSE [raised |-> "ValueError", dt |-> NoDate]

datetime_with(date, time, tz) ==
    IF tz.raised # "" THEN [raised |-> "ValueError", dt |-> NoDate]
    ELSE new_datetime(date.y, date.m, date.d, time.hour, time.minute, time.second,
                      time.microsecond, tz.tz)

datetime_of(date, time) ==
    IF ~ date.ok \/ time.rv < 0 THEN [raised |-> "ValueError", dt |-> NoDate]
    ELSE datetime_with(date, time,
                       tzinfo_from_isoformat_results(time.rv, time.tzoffset,
                                                     time.tzmicrosecond))

\* s is the text in bytes, sep the offset where its date ends; the time, if
\* any text is left, follows the separator
datetime_at(s, sep) ==
    datetime_of(parse_isoformat_date(s, sep),
                IF Len(s) > sep
                THEN parse_isoformat_time(
                         SubSeq(s, sep + separator_width(CharAt(s, sep)) + 1, Len(s)))
                ELSE [NoTime EXCEPT !.rv = 0])

datetime_from_bytes(s) ==
    IF Len(s) < 7 THEN [raised |-> "ValueError", dt |-> NoDate]
    ELSE datetime_at(s, find_isoformat_datetime_separator(s))

\* datetime.fromisoformat(date_string)
fromisoformat(date_string) == datetime_from_bytes(utf8(date_string))

\* start if isinstance(start, datetime) else datetime.fromisoformat(start).
\* A date argument is [typed |-> TRUE, dt |-> datetime, s |-> <<>>] for a
\* datetime and [typed |-> FALSE, dt |-> NoDate, s |-> string] for a str.
to_datetime(x) ==
    IF x.typed THEN [raised |-> "", dt |-> x.dt] ELSE fromisoformat(x.s)

\* ---------------------------------------------------------- response values
\* A Python value is [tag, kids]:
\*   prim      str, int, float, bool or None
\*   list      a list of kids
\*   dict      a dict whose values are kids
\*   model     an object with model_dump(); kids[1] is what model_dump() returns
\*   iterable  an object with __iter__ for which dict(obj) succeeds; kids are
\*             the values of dict(obj)
\*   iterfail  an object with __iter__ for which dict(obj) raises, and with a
\*             __dict__ whose values are kids
\*   object    an object without __iter__, with a __dict__ whose values are kids
\*   opaque    an object with none of model_dump, __iter__, __dict__
Value(tag, kids) == [tag |-> tag, kids |-> kids]

PyNone == Value("prim", << >>)

has_model_dump(obj) == obj.tag = "model"

is_plain(obj) == obj.tag \in {"dict", "list", "prim"}

has_iter(obj) == obj.tag \in {"iterable", "iterfail"}

dict_succeeds(obj) == obj.tag = "iterable"

has_dict(obj) == obj.tag \in {"iterfail", "object"}

RECURSIVE _as_json(_)
_as_json(obj) ==
    IF raw THEN obj
    ELSE IF has_model_dump(obj) THEN obj.kids[1]
    ELSE IF is_plain(obj) THEN obj
    ELSE IF has_iter(obj) /\ dict_succeeds(obj)
    THEN Value("dict", [i \in 1..Len(obj.kids) |-> _as_json(obj.kids[i])])
    ELSE IF has_dict(obj) THEN Value("dict", obj.kids)
    ELSE obj

\* ------------------------------------------------------------- input sets
SideInputs ==
    { << "b","u","y" >>, << "B","u","y" >>, << "s","e","l","l" >>,
      << "b" >>, << >>, << "U+0130","b" >> }

TifMember(v) == [typed |-> TRUE, v |-> v]

TifString(s) == [typed |-> FALSE, v |-> s]

TifInputs ==
    { TifMember(<< "g","t","c" >>),
      TifString(<< "d","a","y" >>), TifString(<< "D","A","Y" >>),
      TifString(<< "D","a","y" >>), TifString(<< "G","t","c" >>),
      TifString(<< "I","O","C" >>), TifString(<< "f","o","k" >>),
      TifString(<< "f","o","o" >>), TifString(<< >>),
      TifString(<< "f","o","U+212A" >>), TifString(<< "U+0130","o","c" >>) }

TrailPercentInputs == { NoneArg, Some(0), Some(5) }

TrailPriceInputs == { NoneArg, Some(2) }

TfString(s) == [isStr |-> TRUE, s |-> s, n |-> 0]

TfNumber(n) == [isStr |-> FALSE, s |-> << >>, n |-> n]

\* One digit more than int() converts
TooManyDigits == [i \in 1..(MaxStrDigits + 1) |-> "1"]

TimeframeInputs ==
    { TfString(<< "1","M","i","n" >>), TfString(<< "5","M","i","n" >>),
      TfString(<< "1","5","m","i","n" >>), TfString(<< "1","D","a","y" >>),
      TfString(<< "1","H","o","u","r" >>), TfString(<< "2","H","o","u","r" >>),
      TfString(<< "1","M","i","n","t" >>), TfString(<< "1","D","a","y","z" >>),
      TfString(<< "1","W","e","e","k" >>), TfString(<< "1" >>),
      TfString(<< "M","i","n" >>), TfString(<< >>),
      TfString(<< "1","U+00B2","M","i","n" >>),
      TfString(<< "U+FF11","M","i","n" >>),
      TfString(<< "1","U+00E9","M","i","n" >>),
      TfString(<< "1","M","U+0130","n" >>),
      TfString(TooManyDigits \o << "M","i","n" >>),
      TfNumber(5) }

DateString(s) == [typed |-> FALSE, dt |-> NoDate, s |-> s]

DateValue(dt) == [typed |-> TRUE, dt |-> dt, s |-> << >>]

Jan03 == << "2","0","2","3","-","0","1","-","0","3" >>

Jan10 == << "2","0","2","3","-","0","1","-","1","0" >>

Jan03Morning ==
    << "2","0","2","3","-","0","1","-","0","3","T","1","0",":","3","0",":","0","0" >>

Jan10Basic == << "2","0","2","3","0","1","1","0" >>

StartInputs ==
    { DateString(Jan03), DateString(Jan03Morning),
      DateString(<< "2","0","2","3","-","0","2","-","3","0" >>),
      DateString(<< "J","a","n"," ","3" >>),
      DateValue(Midnight(2023, 1, 3)) }

EndInputs ==
    { DateString(Jan10), DateString(Jan10Basic),
      DateString(<< "2","0","2","3","-","1","3","-","0","1" >>),
      DateString(<< >>) }

SymbolOrder == << "SPY", "AAPL", "MSFT" >>

Symbols == { SymbolOrder[i] : i \in 1..Len(SymbolOrder) }

RECURSIVE SeqsUpTo(_, _)
SeqsUpTo(S, n) ==
    IF n = 0 THEN { << >> }
    ELSE SeqsUpTo(S, n - 1) \cup
         { Append(q, x) : q \in { r \in SeqsUpTo(S, n - 1) : Len(r) = n - 1 }, x \in S }

\* Every list of at most MaxSyms symbols
SymbolLists == SeqsUpTo(Symbols, MaxSyms)

\* The lists of the first symbols, at most MaxSyms of them
SymbolPrefixes ==
    { SubSeq(SymbolOrder, 1, n) :
          n \in 0..(IF MaxSyms < Len(SymbolOrder) THEN MaxSyms ELSE Len(SymbolOrder)) }

\* What a delegate can hand back: primitives, model objects, opaque objects
\* and one-level containers and objects around them
Prim == Value("prim", << >>)

Model == Value("model", << Value("dict", << Prim >>) >>)

Opaque == Value("opaque", << >>)

ResponseValues ==
    { Prim, Model, Opaque } \cup
    { Value(t, k) : t \in {"list", "dict", "iterable", "iterfail", "object"},
                    k \in { << Prim >>, << Model >> } }

\* get_stock_bars responses: has is whether the response holds the symbol
BarSet(has, bars) == [has |-> has, bars |-> bars]

BarResponses ==
    { BarSet(FALSE, << >>), BarSet(TRUE, << >>), BarSet(TRUE, << Model >>),
      BarSet(TRUE, << Model, Model >>), BarSet(TRUE, << Opaque >>) }

\* get_stock_bars(symbol, tf, limit=1) responses, which get_last_bar indexes
\* with [-1]: lists, and a dict (which has no key -1)
LastBarResponses ==
    { Value("list", << >>), Value("list", << Model >>),
      Value("list", << Model, Opaque >>), Value("dict", << Model >>) }

\* --------------------------------------------------------- request values
NoRequest ==
    [kind |-> "none", type |-> "", side |-> "", time_in_force |-> NoMember,
     trail_percent |-> NoneArg, trail_price |-> NoneArg,
     timeframe |-> NoTimeFrame, start |-> NoDate, end |-> NoDate]

\* OrderRequest(**kwargs)
OrderRequest(type, side, time_in_force, trail_percent, trail_price) ==
    [NoRequest EXCEPT !.kind = "order", !.type = type, !.side = side,
                      !.time_in_force = time_in_force,
                      !.trail_percent = trail_percent,
                      !.trail_price = trail_price]

\* StockBarsRequest(symbol_or_symbols, timeframe, start, end, limit)
StockBarsRequest(tf, start_dt, end_dt) ==
    [NoRequest EXCEPT !.kind = "bars", !.timeframe = tf,
                      !.start = start_dt, !.end = end_dt]

\* The arguments of self._hist.get_stock_bars(symbol, tf, limit=1)
LastBarArgs(tf) == [NoRequest EXCEPT !.kind = "last_bar", !.timeframe = tf]

\* The keyword sets the tests and the docstring pass to submit_custom_order
CustomOrders ==
    { OrderRequest("market", "buy", << "d","a","y" >>, NoneArg, NoneArg),
      OrderRequest("stop_limit", "sell", << "d","a","y" >>, NoneArg, NoneArg) }

\* The values the callers and the delegates choose from.  AllArgs is every
\* value above; FewArgs is a few of each, for callers whose calls overlap.
AllArgs ==
    [side |-> SideInputs, tif |-> TifInputs,
     trail_percent |-> TrailPercentInputs, trail_price |-> TrailPriceInputs,
     timeframe |-> TimeframeInputs, start |-> StartInputs, end |-> EndInputs,
     symbols |-> SymbolLists, kwargs |-> CustomOrders,
     orders |-> ResponseValues, bars |-> BarResponses,
     last_bars |-> LastBarResponses]

FewArgs ==
    [side |-> { << "b","u","y" >> },
     tif |-> { TifString(<< "d","a","y" >>), TifString(<< "f","o","o" >>) },
     trail_percent |-> { NoneArg, Some(5) }, trail_price |-> { NoneArg },
     timeframe |-> { TfString(<< "1","M","i","n" >>),
                     TfString(<< "1","H","o","u","r" >>) },
     start |-> { DateString(Jan03) }, end |-> { DateString(Jan10) },
     symbols |-> SymbolPrefixes,
     kwargs |-> { OrderRequest("market", "buy", << "d","a","y" >>, NoneArg, NoneArg) },
     orders |-> { Prim, Value("list", << Model >>) },
     bars |-> { BarSet(FALSE, << >>), BarSet(TRUE, << Model >>) },
     last_bars |-> { Value("list", << >>), Value("list", << Model >>) }]

\* ------------------------------------------------------------ call records
NoTif == TifString(<< >>)

NoOp ==
    [name |-> "", side |-> << >>, tif |-> NoTif,
     trail_percent |-> NoneArg, trail_price |-> NoneArg,
     timeframe |-> TfString(<< >>), start |-> DateString(<< >>),
     end |-> DateString(<< >>), symbols |-> << >>, kwargs |-> NoRequest]

NoOutcome == [kind |-> "none", source |-> "", error |-> "", value |-> PyNone]

Returned(v) == [kind |-> "return", source |-> "", error |-> "", value |-> v]

\* source: local (the wrapper's own argument handling), sdk (a request value's
\* constructor), delegate (a delegate call), response (indexing a response)
Raised(source, error) ==
    [kind |-> "raise", source |-> source, error |-> error, value |-> PyNone]

\* One call of a delegate's method: its argument (a symbol, or "" where the
\* argument is the request value req), and what came back; while the call is
\* in progress nothing has come back
DelegateCall(target, method, arg, raised, result) ==
    [target |-> target, method |-> method, arg |-> arg, raised |-> raised,
     result |-> result]

\* The last delegate call of the caller's log has come back
Answered(t, raised, result) ==
    [log EXCEPT ![t][Len(log[t])].raised = raised, ![t][Len(log[t])].result = result]

\* ------------------------------------------------------------------- Init
\* __init__: raw_data is the caller's choice, the stream is not built; no
\* caller is in a call
Init ==
    /\ raw \in BOOLEAN
    /\ ws = 0
    /\ wsCreated = 0
    /\ submitCount = 0
    /\ calls = 0
    /\ pc = [t \in Callers |-> "idle"]
    /\ op = [t \in Callers |-> NoOp]
    /\ req = [t \in Callers |-> NoRequest]
    /\ outcome = [t \in Callers |-> NoOutcome]
    /\ log = [t \in Callers |-> << >>]
    /\ todo = [t \in Callers |-> << >>]
    /\ built = [t \in Callers |-> 0]

\* Caller t invokes a public method; its previous call has ended, whatever
\* the other callers are in the middle of
Begin(t, o) ==
    /\ pc[t] = "idle"
    /\ calls < MaxCalls
    /\ op' = [op EXCEPT ![t] = o]
    /\ calls' = calls + 1

\* An exception leaves the method before any request is handed on
LocalRaise(t, error) ==
    /\ pc' = [pc EXCEPT ![t] = "done"]
    /\ outcome' = [outcome EXCEPT ![t] = Raised("local", error)]
    /\ req' = [req EXCEPT ![t] = NoRequest]

\* The arguments are evaluated; control reaches _submit with the keywords
ToSubmit(t, r) ==
    /\ pc' = [pc EXCEPT ![t] = "submit"]
    /\ outcome' = [outcome EXCEPT ![t] = NoOutcome]
    /\ req' = [req EXCEPT ![t] = r]

\* The rest of an order helper: the error its argument handling raises ("" for
\* none) leaves the method, else the request goes to _submit
Settle(t, error, r) ==
    /\ IF error # "" THEN LocalRaise(t, error) ELSE ToSubmit(t, r)
    /\ UNCHANGED <<raw, ws, wsCreated, submitCount, log, todo, built>>

market_buy(t, A) ==
    \E tif \in A.tif :
        LET f == _tif(tif)
        IN  /\ Begin(t, [NoOp EXCEPT !.name = "market_buy", !.tif = tif])
            /\ Settle(t, f.raised,
                      OrderRequest("market", OrderSideBUY, f.member, NoneArg, NoneArg))

market_sell(t, A) ==
    \E tif \in A.tif :
        LET f == _tif(tif)
        IN  /\ Begin(t, [NoOp EXCEPT !.name = "market_sell", !.tif = tif])
            /\ Settle(t, f.raised,
                      OrderRequest("market", OrderSideSELL, f.member, NoneArg, NoneArg))

limit_order(t, A) ==
    \E side \in A.side, tif \in A.tif :
        LET f == _tif(tif)
        IN  /\ Begin(t, [NoOp EXCEPT !.name = "limit_order", !.side = side,
                                     !.tif = tif])
            /\ Settle(t, f.raised,
                      OrderRequest("limit", _side(side), f.member, NoneArg, NoneArg))

stop_loss(t, A) ==
    \E side \in A.side, tif \in A.tif :
        LET f == _tif(tif)
        IN  /\ Begin(t, [NoOp EXCEPT !.name = "stop_loss", !.side = side,
                                     !.tif = tif])
            /\ Settle(t, f.raised,
                      OrderRequest("stop", _side(side), f.member, NoneArg, NoneArg))

\* Variant: the presence check is left out
trail_args_missing_Unchecked(trail_percent, trail_price) == FALSE

\* if not (trail_percent or trail_price)
trail_args_missing(trail_percent, trail_price) ==
    ~ (Truthy(trail_percent) \/ Truthy(trail_price))

trailing_stop(t, A) ==
    \E trail_percent \in A.trail_percent, trail_price \in A.trail_price,
       side \in A.side, tif \in A.tif :
        LET f == _tif(tif)
        IN  /\ Begin(t, [NoOp EXCEPT !.name = "trailing_stop", !.side = side,
                                     !.tif = tif, !.trail_percent = trail_percent,
                                     !.trail_price = trail_price])
            /\ Settle(t, IF trail_args_missing(trail_percent, trail_price)
                           THEN "ValueError" ELSE f.raised,
                         OrderRequest("trailing_stop", _side(side), f.member,
                                      trail_percent, trail_price))

submit_custom_order(t, A) ==
    \E kwargs \in A.kwargs :
        /\ Begin(t, [NoOp EXCEPT !.name = "submit_custom_order", !.kwargs = kwargs])
        /\ Settle(t, "", kwargs)

\* ---------------------------------------------------------------- _submit
\* OrderRequest(**kwargs) raises: the SDK's request model refuses the keywords
_submit_rejected(t) ==
    /\ pc[t] = "submit"
    /\ pc' = [pc EXCEPT ![t] = "done"]
    /\ outcome' = [outcome EXCEPT ![t] = Raised("sdk", "ValidationError")]
    /\ UNCHANGED <<raw, ws, wsCreated, submitCount, calls, op, req, log, todo, built>>

\* self._trade.submit_order(...) is called and the caller waits in it
_submit_call(t) ==
    /\ pc[t] = "submit"
    /\ pc' = [pc EXCEPT ![t] = "in_submit"]
    /\ submitCount' = submitCount + 1
    /\ log' = [log EXCEPT ![t] = Append(@, DelegateCall("trade", "submit_order", "",
                                                        FALSE, PyNone))]
    /\ UNCHANGED <<raw, ws, wsCreated, calls, op, req, outcome, todo, built>>

\* submit_order returns an order; _as_json normalises it
_submit_returns(t, A) ==
    /\ pc[t] = "in_submit"
    /\ \E order \in A.orders :
           /\ outcome' = [outcome EXCEPT ![t] = Returned(_as_json(order))]
           /\ log' = Answered(t, FALSE, order)
    /\ pc' = [pc EXCEPT ![t] = "done"]
    /\ UNCHANGED <<raw, ws, wsCreated, submitCount, calls, op, req, todo, built>>

\* Variant: a raising submit_order is retried once
_submit_raises_Retry(t) ==
    /\ pc[t] = "in_submit"
    /\ log' = Answered(t, TRUE, PyNone)
    /\ IF Len(log[t]) < 2
       THEN pc' = [pc EXCEPT ![t] = "submit"] /\ outcome' = outcome
       ELSE /\ pc' = [pc EXCEPT ![t] = "done"]
            /\ outcome' = [outcome EXCEPT ![t] = Raised("delegate", "APIError")]
    /\ UNCHANGED <<raw, ws, wsCreated, submitCount, calls, op, req, todo, built>>

\* submit_order raises: the error reaches the caller
_submit_raises(t) ==
    /\ pc[t] = "in_submit"
    /\ log' = Answered(t, TRUE, PyNone)
    /\ pc' = [pc EXCEPT ![t] = "done"]
    /\ outcome' = [outcome EXCEPT ![t] = Raised("delegate", "APIError")]
    /\ UNCHANGED <<raw, ws, wsCreated, submitCount, calls, op, req, todo, built>>

\* ---------------------------------------------------- get_historical_bars
\* The first conversion that raised, in the order the code makes them
first_error(tf, start_dt, end_dt) ==
    IF tf.raised # "" THEN tf.raised
    ELSE IF start_dt.raised # "" THEN start_dt.raised
    ELSE end_dt.raised

\* The request value is built from the converted arguments, or the call ends
\* with the error of the conversion that raised
bars_request(t, tf, start_dt, end_dt) ==
    IF first_error(tf, start_dt, end_dt) # ""
    THEN LocalRaise(t, first_error(tf, start_dt, end_dt))
    ELSE /\ pc' = [pc EXCEPT ![t] = "bars"]
         /\ outcome' = [outcome EXCEPT ![t] = NoOutcome]
         /\ req' = [req EXCEPT ![t] = StockBarsRequest(tf.tf, start_dt.dt, end_dt.dt)]

\* _tf_parse, then the two date conversions, then the request value
get_historical_bars(t, A) ==
    \E timeframe \in A.timeframe, start \in A.start, end \in A.end :
        /\ Begin(t, [NoOp EXCEPT !.name = "get_historical_bars",
                                 !.timeframe = timeframe,
                                 !.start = start, !.end = end])
        /\ bars_request(t, _tf_parse(timeframe, "Minute"), to_datetime(start),
                        to_datetime(end))
        /\ UNCHANGED <<raw, ws, wsCreated, submitCount, log, todo, built>>

\* StockBarsRequest(...) raises: the SDK's request model refuses the values
bars_rejected(t) ==
    /\ pc[t] = "bars"
    /\ pc' = [pc EXCEPT ![t] = "done"]
    /\ outcome' = [outcome EXCEPT ![t] = Raised("sdk", "ValidationError")]
    /\ UNCHANGED <<raw, ws, wsCreated, submitCount, calls, op, req, log, todo, built>>

\* self._hist.get_stock_bars(req) is called and the caller waits in it
bars_call(t) ==
    /\ pc[t] = "bars"
    /\ pc' = [pc EXCEPT ![t] = "in_bars"]
    /\ log' = [log EXCEPT ![t] = Append(@, DelegateCall("hist", "get_stock_bars", "",
                                                        FALSE, PyNone))]
    /\ UNCHANGED <<raw, ws, wsCreated, submitCount, calls, op, req, outcome, todo,
                   built>>

\* get_stock_bars returns; the symbol's bars are looked up and each is
\* normalised
bars_returned(t, A) ==
    /\ pc[t] = "in_bars"
    /\ \E resp \in A.bars :
           /\ outcome' =
                  [outcome EXCEPT ![t] =
                      IF resp.has
                      THEN Returned(Value("list",
                               [i \in 1..Len(resp.bars) |-> _as_json(resp.bars[i])]))
                      ELSE Raised("response", "KeyError")]
           /\ log' = Answered(t, FALSE, Value("list", resp.bars))
    /\ pc' = [pc EXCEPT ![t] = "done"]
    /\ UNCHANGED <<raw, ws, wsCreated, submitCount, calls, op, req, todo, built>>

\* get_stock_bars raises
bars_raises(t) ==
    /\ pc[t] = "in_bars"
    /\ log' = Answered(t, TRUE, PyNone)
    /\ pc' = [pc EXCEPT ![t] = "done"]
    /\ outcome' = [outcome EXCEPT ![t] = Raised("delegate", "APIError")]
    /\ UNCHANGED <<raw, ws, wsCreated, submitCount, calls, op, req, todo, built>>

\* ----------------------------------------------------------- get_last_bar
\* The timeframe is converted: its error ends the call, else control reaches
\* the delegate call
last_bar_request(t, tf) ==
    IF tf.raised # ""
    THEN LocalRaise(t, tf.raised)
    ELSE /\ pc' = [pc EXCEPT ![t] = "last_bar"]
         /\ outcome' = [outcome EXCEPT ![t] = NoOutcome]
         /\ req' = [req EXCEPT ![t] = LastBarArgs(tf.tf)]

\* tf = self._tf_parse(timeframe)
get_last_bar(t, A) ==
    \E timeframe \in A.timeframe :
        /\ Begin(t, [NoOp EXCEPT !.name = "get_last_bar", !.timeframe = timeframe])
        /\ last_bar_request(t, _tf_parse(timeframe, "Minute"))
        /\ UNCHANGED <<raw, ws, wsCreated, submitCount, log, todo, built>>

\* self._hist.get_stock_bars(symbol, tf, limit=1) is called and the caller
\* waits in it
last_bar_call(t) ==
    /\ pc[t] = "last_bar"
    /\ pc' = [pc EXCEPT ![t] = "in_last_bar"]
    /\ log' = [log EXCEPT ![t] = Append(@, DelegateCall("hist", "get_stock_bars", "",
                                                        FALSE, PyNone))]
    /\ UNCHANGED <<raw, ws, wsCreated, submitCount, calls, op, req, outcome, todo,
                   built>>

\* bars[-1]: the last element of a list, IndexError for an empty list,
\* KeyError for a dict
last_of(bars) ==
    IF bars.tag = "dict" THEN Raised("response", "KeyError")
    ELSE IF bars.kids = << >> THEN Raised("response", "IndexError")
    ELSE Returned(_as_json(bars.kids[Len(bars.kids)]))

\* get_stock_bars returns; the last bar is normalised
last_bar_returned(t, A) ==
    /\ pc[t] = "in_last_bar"
    /\ \E bars \in A.last_bars :
           /\ outcome' = [outcome EXCEPT ![t] = last_of(bars)]
           /\ log' = Answered(t, FALSE, bars)
    /\ pc' = [pc EXCEPT ![t] = "done"]
    /\ UNCHANGED <<raw, ws, wsCreated, submitCount, calls, op, req, todo, built>>

\* get_stock_bars raises
last_bar_raises(t) ==
    /\ pc[t] = "in_last_bar"
    /\ log' = Answered(t, TRUE, PyNone)
    /\ pc' = [pc EXCEPT ![t] = "done"]
    /\ outcome' = [outcome EXCEPT ![t] = Raised("delegate", "APIError")]
    /\ UNCHANGED <<raw, ws, wsCreated, submitCount, calls, op, req, todo, built>>

\* --------------------------------------------------------------- streaming
\* Variant: the stream is taken as absent on every call
stream_absent_Always(handle) == TRUE

\* if not self._ws
stream_absent(handle) == handle = 0

\* subscribe_price is entered and _ensure_ws reads self._ws: absent, a stream
\* is to be built; present, the loop over symbols begins
subscribe_price(t, A) ==
    \E symbols \in A.symbols :
        /\ Begin(t, [NoOp EXCEPT !.name = "subscribe_price", !.symbols = symbols])
        /\ pc' = [pc EXCEPT ![t] = IF stream_absent(ws) THEN "build" ELSE "register"]
        /\ todo' = [todo EXCEPT ![t] = symbols]
        /\ outcome' = [outcome EXCEPT ![t] = NoOutcome]
        /\ req' = [req EXCEPT ![t] = NoRequest]
        /\ UNCHANGED <<raw, ws, wsCreated, submitCount, log, built>>

\* _ensure_ws: StockDataStream(self._api_key, self._secret) is constructed
_ensure_ws_construct(t) ==
    /\ pc[t] = "build"
    /\ built[t] = 0
    /\ wsCreated' = wsCreated + 1
    /\ built' = [built EXCEPT ![t] = wsCreated + 1]
    /\ UNCHANGED <<raw, ws, submitCount, calls, pc, op, req, outcome, log, todo>>

\* _ensure_ws: the new stream is stored in self._ws, whatever is there by now
_ensure_ws_assign(t) ==
    /\ pc[t] = "build"
    /\ built[t] # 0
    /\ ws' = built[t]
    /\ built' = [built EXCEPT ![t] = 0]
    /\ pc' = [pc EXCEPT ![t] = "register"]
    /\ UNCHANGED <<raw, wsCreated, submitCount, calls, op, req, outcome, log, todo>>

\* self._ws.subscribe_bars(callback, sym) returns: on to the next symbol
register_ok(t) ==
    /\ pc[t] = "register"
    /\ todo[t] # << >>
    /\ log' = [log EXCEPT ![t] = Append(@, DelegateCall("ws", "subscribe_bars",
                                                        Head(todo[t]), FALSE, PyNone))]
    /\ todo' = [todo EXCEPT ![t] = Tail(@)]
    /\ UNCHANGED <<raw, ws, wsCreated, submitCount, calls, pc, op, req, outcome, built>>

\* self._ws.subscribe_bars(callback, sym) raises: the loop is left
register_raises(t) ==
    /\ pc[t] = "register"
    /\ todo[t] # << >>
    /\ log' = [log EXCEPT ![t] = Append(@, DelegateCall("ws", "subscribe_bars",
                                                        Head(todo[t]), TRUE, PyNone))]
    /\ pc' = [pc EXCEPT ![t] = "done"]
    /\ outcome' = [outcome EXCEPT ![t] = Raised("delegate", "APIError")]
    /\ UNCHANGED <<raw, ws, wsCreated, submitCount, calls, op, req, todo, built>>

\* Variant: self._ws.run() is entered from inside the loop, whatever is left
\* to register
run_enter_InLoop(t) ==
    /\ pc[t] = "register"
    /\ log' = [log EXCEPT ![t] = Append(@, DelegateCall("ws", "run", "", FALSE, PyNone))]
    /\ pc' = [pc EXCEPT ![t] = "running"]
    /\ UNCHANGED <<raw, ws, wsCreated, submitCount, calls, op, req, outcome, todo,
                   built>>

\* The loop is over: self._ws.run() is entered and blocks
run_enter(t) ==
    /\ pc[t] = "register"
    /\ todo[t] = << >>
    /\ log' = [log EXCEPT ![t] = Append(@, DelegateCall("ws", "run", "", FALSE, PyNone))]
    /\ pc' = [pc EXCEPT ![t] = "running"]
    /\ UNCHANGED <<raw, ws, wsCreated, submitCount, calls, op, req, outcome, todo,
                   built>>

\* run() returns (the stream was stopped): subscribe_price returns None
run_returns(t) ==
    /\ pc[t] = "running"
    /\ pc' = [pc EXCEPT ![t] = "done"]
    /\ outcome' = [outcome EXCEPT ![t] = Returned(PyNone)]
    /\ UNCHANGED <<raw, ws, wsCreated, submitCount, calls, op, req, log, todo, built>>

\* run() raises
run_raises(t) ==
    /\ pc[t] = "running"
    /\ log' = Answered(t, TRUE, PyNone)
    /\ pc' = [pc EXCEPT ![t] = "done"]
    /\ outcome' = [outcome EXCEPT ![t] = Raised("delegate", "APIError")]
    /\ UNCHANGED <<raw, ws, wsCreated, submitCount, calls, op, req, todo, built>>

\* ------------------------------------------------------------------ caller
\* The call has returned or raised; the caller goes on
caller_continues(t) ==
    /\ pc[t] = "done"
    /\ pc' = [pc EXCEPT ![t] = "idle"]
    /\ op' = [op EXCEPT ![t] = NoOp]
    /\ req' = [req EXCEPT ![t] = NoRequest]
    /\ outcome' = [outcome EXCEPT ![t] = NoOutcome]
    /\ log' = [log EXCEPT ![t] = << >>]
    /\ todo' = [todo EXCEPT ![t] = << >>]
    /\ UNCHANGED <<raw, ws, wsCreated, submitCount, calls, built>>

\* ------------------------------------------------------------ specification
\* One step of caller t, its arguments and the delegates' answers drawn from A
Step(t, A) ==
    \/ market_buy(t, A)
    \/ market_sell(t, A)
    \/ limit_order(t, A)
    \/ stop_loss(t, A)
    \/ trailing_stop(t, A)
    \/ submit_custom_order(t, A)
    \/ _submit_rejected(t)
    \/ _submit_call(t)
    \/ _submit_returns(t, A)
    \/ _submit_raises(t)
    \/ get_historical_bars(t, A)
    \/ bars_rejected(t)
    \/ bars_call(t)
    \/ bars_returned(t, A)
    \/ bars_raises(t)
    \/ get_last_bar(t, A)
    \/ last_bar_call(t)
    \/ last_bar_returned(t, A)
    \/ last_bar_raises(t)
    \/ subscribe_price(t, A)
    \/ _ensure_ws_construct(t)
    \/ _ensure_ws_assign(t)
    \/ register_ok(t)
    \/ register_raises(t)
    \/ run_enter(t)
    \/ run_returns(t)
    \/ run_raises(t)
    \/ caller_continues(t)

\* Callers whose calls may overlap: threads, or the callback inside run()
Next == \E t \in Callers : Step(t, FewArgs)

Spec == Init /\ [][Next]_vars

\* One caller, one call after another, over every argument value
NextOneCaller == Step("main", AllArgs)

SpecOneCaller == Init /\ [][NextOneCaller]_vars


\* ================================================================= claims
\* Vocabulary of the properties below, written without the operators of the
\* wrapper they are about.  t is a caller.
OrderHelpers ==
    { "market_buy", "market_sell", "limit_order", "stop_loss", "trailing_stop",
      "submit_custom_order" }

TifHelpers ==
    { "market_buy", "market_sell", "limit_order", "stop_loss", "trailing_stop" }

SideHelpers == { "limit_order", "stop_loss", "trailing_stop" }

\* The operations that take a timeframe
TimeframeReaders == { "get_historical_bars", "get_last_bar" }

Finished(t) == pc[t] = "done"

RaisedLocally(t) == outcome[t].kind = "raise" /\ outcome[t].source = "local"

BothTrailsAbsent(t) == ~ op[t].trail_percent.some /\ ~ op[t].trail_price.some

BothTrailsFalsy(t) ==
    /\ op[t].trail_percent.some => op[t].trail_percent.v = 0
    /\ op[t].trail_price.some => op[t].trail_price.v = 0

\* The characters str.lower turns into the lower-case ASCII letter c: c, its
\* capital and, for k, KELVIN SIGN
CaseVariants(c) ==
    { c, UpperLetters[IndexIn(LowerLetters, c)] }
        \cup (IF c = "k" THEN { "U+212A" } ELSE { })

\* s is the lower-case ASCII word w in some letter case
SameIgnoringCase(s, w) ==
    /\ Len(s) = Len(w)
    /\ \A i \in 1..Len(s) : s[i] \in CaseVariants(w[i])

DocumentedTifs ==
    { << "d","a","y" >>, << "g","t","c" >>, << "i","o","c" >>, << "f","o","k" >> }

\* The tif string of the call names a documented time-in-force in some case
TifStringKnown(t) == \E w \in DocumentedTifs : SameIgnoringCase(op[t].tif.v, w)

\* The characters of the inputs that are digits to str.isdigit, those of them
\* int() accepts, and those that are letters to str.isalpha
DigitChars ==
    { Digits[i] : i \in 1..Len(Digits) } \cup { "U+00B2", "U+00B9", "U+FF11", "U+0663" }

DecimalChars == { Digits[i] : i \in 1..Len(Digits) } \cup { "U+FF11", "U+0663" }

LetterChars ==
    { LowerLetters[i] : i \in 1..Len(LowerLetters) }
        \cup { UpperLetters[i] : i \in 1..Len(UpperLetters) }
        \cup { "U+00E9", "U+00C9", "U+00DF", "U+212A", "U+0130" }

LettersIn(s) == SelectSeq(s, LAMBDA c : c \in LetterChars)

\* The first three letters of the timeframe string, ignoring case, are w
UnitPrefixIs(t, w) ==
    /\ Len(LettersIn(op[t].timeframe.s)) >= 3
    /\ SameIgnoringCase(SubSeq(LettersIn(op[t].timeframe.s), 1, 3), w)

\* All the letters of the timeframe string, ignoring case, are w
UnitTokenIs(t, w) == SameIgnoringCase(LettersIn(op[t].timeframe.s), w)

\* The timeframe string has a digit and no more than 4300 of them, and every
\* digit of it is one int() accepts
NumberReadable(t) ==
    /\ \E i \in 1..Len(op[t].timeframe.s) : op[t].timeframe.s[i] \in DigitChars
    /\ Len(SelectSeq(op[t].timeframe.s, LAMBDA c : c \in DigitChars)) <= 4300
    /\ \A i \in 1..Len(op[t].timeframe.s) :
           op[t].timeframe.s[i] \in DigitChars => op[t].timeframe.s[i] \in DecimalChars

\* The date arguments of the call, if it takes any, are datetimes or ISO 8601
\* strings
DatesGood(t) ==
    op[t].name = "get_historical_bars"
    => /\ op[t].start.typed \/ op[t].start.s \in { Jan03, Jan03Morning }
       /\ op[t].end.typed \/ op[t].end.s \in { Jan10, Jan10Basic }

\* The compact forms of the call: string, amount, unit
KnownForms ==
    { << << "1","M","i","n" >>, 1, "Minute" >>,
      << << "5","M","i","n" >>, 5, "Minute" >>,
      << << "1","D","a","y" >>, 1, "Day" >> }

HourForms ==
    { << << "1","H","o","u","r" >>, 1, "Hour" >>,
      << << "2","H","o","u","r" >>, 2, "Hour" >> }

\* With good dates, each timeframe string of the forms is parsed to its pair,
\* which reaches the request value of get_historical_bars and the delegate
\* call of get_last_bar
ParsedAs(forms) ==
    \A t \in Callers, f \in forms :
        (op[t].name \in TimeframeReaders /\ op[t].timeframe.isStr
            /\ op[t].timeframe.s = f[1] /\ DatesGood(t))
        => (req[t].kind \in { "bars", "last_bar" }
               /\ req[t].timeframe = [amount |-> f[2], unit |-> f[3]])

RECURSIVE JsonSafe(_)
JsonSafe(v) ==
    /\ v.tag \in {"prim", "dict", "list"}
    /\ \A i \in 1..Len(v.kids) : JsonSafe(v.kids[i])

\* The submit_order calls and the registrations a call has made, and the
\* times it entered run
Submissions(t) == SelectSeq(log[t], LAMBDA c : c.method = "submit_order")

Registrations(t) == SelectSeq(log[t], LAMBDA c : c.method = "subscribe_bars")

RunsEntered(t) == Len(SelectSeq(log[t], LAMBDA c : c.method = "run"))

\* ---- C1
\* A step in which caller t makes the trailing_stop call with neither trail
\* argument
FailedTrailingStopStep(t) ==
    /\ pc[t] = "idle"
    /\ op'[t].name = "trailing_stop"
    /\ ~ op'[t].trail_percent.some
    /\ ~ op'[t].trail_price.some

\* C1: trailing_stop called with both trail_percent and trail_price absent
\* ends with a local ValueError and without a delegate call of its own, and
\* the call leaves the count of submit_order calls as it was.
C1_TrailingStopNeedsTrail ==
    /\ [](\A t \in Callers :
              (op[t].name = "trailing_stop" /\ BothTrailsAbsent(t))
              => /\ Finished(t)
                 /\ RaisedLocally(t)
                 /\ outcome[t].error = "ValueError"
                 /\ log[t] = << >>)
    /\ [][\A t \in Callers :
              FailedTrailingStopStep(t) => submitCount' = submitCount]_vars

\* The failed call, made after an order of another call was submitted
C1_Witness ==
    \E t \in Callers :
        /\ op[t].name = "trailing_stop"
        /\ BothTrailsAbsent(t)
        /\ Finished(t)
        /\ RaisedLocally(t)
        /\ submitCount = 1

\* ---- C2
\* C2 as claimed: apart from trailing_stop with neither trail argument, no
\* finished call ends in an error raised by the wrapper's own argument handling.
C2_OnlyTrailingStopRaisesLocally ==
    \A t \in Callers :
        (Finished(t) /\ RaisedLocally(t))
        => (op[t].name = "trailing_stop" /\ BothTrailsAbsent(t))

\* The unit letters of the timeframe string begin with hou: the hour unit
HourNamed(t) ==
    /\ op[t].name \in TimeframeReaders
    /\ op[t].timeframe.isStr
    /\ UnitPrefixIs(t, << "h","o","u" >>)

\* What the argument handling of the call raises on
LocalErrorCase(t) ==
    \/ op[t].name = "trailing_stop" /\ BothTrailsFalsy(t)
    \/ op[t].name \in TifHelpers /\ ~ op[t].tif.typed /\ ~ TifStringKnown(t)
    \/ /\ op[t].name \in TimeframeReaders
       /\ op[t].timeframe.isStr
       /\ \/ ~ NumberReadable(t)
          \/ /\ ~ UnitPrefixIs(t, << "m","i","n" >>)
             /\ ~ UnitPrefixIs(t, << "h","o","u" >>)
             /\ ~ UnitPrefixIs(t, << "d","a","y" >>)
    \/ ~ DatesGood(t)

\* C2 amended: the argument handling of the order helpers, get_historical_bars
\* and get_last_bar raises locally in four cases, and in each of them it
\* does: trailing_stop with both trail arguments None or zero; a
\* time-in-force string that str.lower does not turn into day, gtc, ioc or
\* fok; a timeframe string whose digits int() refuses (none, one that is no
\* decimal digit, or more than 4300 of them) or whose first three letters
\* str.lower does not turn into min, hou or day; a start or end string that
\* datetime.fromisoformat refuses.  Outside these cases it does not raise,
\* where nothing is said of a timeframe string that names the hour unit.  A
\* call that raises locally made no delegate call; subscribe_price never
\* raises locally.
C2_LocalErrorCases ==
    \A t \in Callers :
        Finished(t)
        => /\ LocalErrorCase(t) => RaisedLocally(t)
           /\ (RaisedLocally(t) /\ ~ HourNamed(t)) => LocalErrorCase(t)
           /\ RaisedLocally(t) => log[t] = << >>

\* get_last_bar refuses a timeframe string before its delegate call
C2_Witness ==
    \E t \in Callers :
        /\ Finished(t)
        /\ RaisedLocally(t)
        /\ op[t].name = "get_last_bar"
        /\ op[t].timeframe = TfString(<< "1","W","e","e","k" >>)
        /\ outcome[t].error = "KeyError"
        /\ log[t] = << >>

\* ---- C3
\* C3 as claimed: "1Min", "5Min" and "1Day" parse to (1, Minute), (5, Minute)
\* and (1, Day), and every string whose unit token (its letters) is not one
\* of the units min, hour, day raises.
C3_RejectsEveryUnknownUnitToken ==
    /\ ParsedAs(KnownForms)
    /\ \A t \in Callers :
           (op[t].name \in TimeframeReaders /\ op[t].timeframe.isStr
               /\ ~ UnitTokenIs(t, << "m","i","n" >>)
               /\ ~ UnitTokenIs(t, << "h","o","u","r" >>)
               /\ ~ UnitTokenIs(t, << "d","a","y" >>))
           => (Finished(t) /\ RaisedLocally(t))

\* C3 amended: "1Min", "5Min" and "1Day" parse to (1, Minute), (5, Minute) and
\* (1, Day), and every string whose first three letters str.lower does not
\* turn into the first three letters of a unit (min, hou, day) raises
\* KeyError or ValueError; letters after the third are ignored.
C3_RejectsUnknownUnitPrefix ==
    /\ ParsedAs(KnownForms)
    /\ \A t \in Callers :
           (op[t].name \in TimeframeReaders /\ op[t].timeframe.isStr
               /\ ~ UnitPrefixIs(t, << "m","i","n" >>)
               /\ ~ UnitPrefixIs(t, << "h","o","u" >>)
               /\ ~ UnitPrefixIs(t, << "d","a","y" >>))
           => /\ Finished(t)
              /\ RaisedLocally(t)
              /\ outcome[t].error \in {"KeyError", "ValueError"}

C3_Witness ==
    \E t \in Callers :
        /\ op[t].name = "get_historical_bars"
        /\ op[t].timeframe = TfString(<< "1","W","e","e","k" >>)
        /\ DatesGood(t)
        /\ Finished(t)
        /\ outcome[t].error = "KeyError"

\* ---- C4
\* The helper's own check and its tif conversion let the call through
PassesOtherChecks(t) ==
    /\ op[t].name = "trailing_stop" => ~ BothTrailsFalsy(t)
    /\ op[t].tif.typed \/ TifStringKnown(t)

\* C4 as claimed: a side string starting with "b" becomes buy, any other
\* string, the empty one too, becomes sell.
C4_SideStartsWithLowerB ==
    \A t \in Callers :
        (op[t].name \in SideHelpers /\ req[t].kind = "order")
        => (req[t].side = "buy" <=> (op[t].side # << >> /\ op[t].side[1] = "b"))

\* C4 amended: a side string starting with "b" or "B" becomes buy, any other
\* string, the empty one too, becomes sell; the conversion never fails for a
\* string.
C4_SideStartsWithB ==
    \A t \in Callers :
        op[t].name \in SideHelpers
        => /\ PassesOtherChecks(t) => req[t].kind = "order"
           /\ req[t].kind = "order"
              => /\ req[t].side \in {"buy", "sell"}
                 /\ req[t].side = "buy"
                    <=> (op[t].side # << >> /\ op[t].side[1] \in {"b", "B"})

C4_Witness ==
    \E t \in Callers :
        /\ op[t].name = "stop_loss"
        /\ op[t].side = << "B","u","y" >>
        /\ req[t].kind = "order"
        /\ req[t].side = "buy"

\* ---- C5
\* C5: a typed TimeInForce argument reaches the request unchanged; a string
\* that is day, gtc, ioc or fok in any letter case is accepted and reaches the
\* request as the member whose value is the lower-case word.
C5_TifCoercion ==
    \A t \in Callers :
        (op[t].name \in TifHelpers
            /\ (op[t].name = "trailing_stop" => ~ BothTrailsFalsy(t)))
        => /\ op[t].tif.typed
              => (req[t].kind = "order" /\ req[t].time_in_force = op[t].tif.v)
           /\ \A w \in DocumentedTifs :
                  (~ op[t].tif.typed /\ SameIgnoringCase(op[t].tif.v, w))
                  => (req[t].kind = "order" /\ req[t].time_in_force = w)

C5_Witness ==
    \E t \in Callers :
        /\ op[t].name = "market_buy"
        /\ op[t].tif = TifString(<< "D","A","Y" >>)
        /\ req[t].kind = "order"
        /\ req[t].time_in_force = << "d","a","y" >>

\* ---- C6
\* A caller is in _ensure_ws, the handle having been absent when its
\* subscribe_price call began
InEnsureWs == \E t \in Callers : op[t].name = "subscribe_price" /\ pc[t] = "build"

\* C6: over any sequence of operations at most one StockDataStream is ever
\* built; the handle is absent until the first subscribe_price call stores
\* the stream it built, it changes only then, and later subscribe_price calls
\* run on that same stream: nothing resets or replaces it.
C6_StreamBuiltOnce ==
    /\ [](/\ wsCreated <= 1
          /\ ws \in { 0, wsCreated }
          /\ (wsCreated = 1 /\ ws = 0) => InEnsureWs
          /\ \A t \in Callers :
                 (op[t].name = "subscribe_price" /\ pc[t] \in {"register", "running"})
                 => ws = 1)
    /\ [][ws' # ws => (ws = 0 /\ InEnsureWs)]_vars

\* The second call is a subscribe_price that runs on the stream the first built
C6_Witness ==
    \E t \in Callers :
        /\ calls = 2
        /\ op[t].name = "subscribe_price"
        /\ pc[t] = "running"
        /\ ws = 1
        /\ wsCreated = 1

\* ---- C7
\* C7 as claimed: with raw_data false, whatever value a delegate returns, the
\* normalised value an order helper returns is JSON-safe at every level.
C7_NormalizerJsonSafe ==
    \A t \in Callers :
        (~ raw /\ op[t].name \in OrderHelpers /\ Finished(t)
            /\ outcome[t].kind = "return")
        => JsonSafe(outcome[t].value)

\* ---- C8
\* C8: an order helper whose arguments pass the local checks and whose request
\* value is built calls submit_order exactly once: none before _submit's
\* delegate call, one from then on; it returns the normalised response of that
\* call, or the delegate's error with no second submission.  A call refused
\* before the delegate call submits nothing.  The count of submit_order calls
\* grows by one with each such call and not otherwise.
C8_SubmitExactlyOnce ==
    /\ [](\A t \in Callers :
              op[t].name \in OrderHelpers
              => /\ log[t] = Submissions(t)
                 /\ pc[t] = "submit" => log[t] = << >>
                 /\ (Finished(t) /\ outcome[t].source \in {"local", "sdk"})
                    => log[t] = << >>
                 /\ pc[t] = "in_submit"
                    => (Len(log[t]) = 1 /\ log[t][1].target = "trade")
                 /\ (Finished(t) /\ outcome[t].source \notin {"local", "sdk"})
                    => /\ Len(log[t]) = 1
                       /\ log[t][1].target = "trade"
                       /\ IF log[t][1].raised
                          THEN outcome[t] = Raised("delegate", "APIError")
                          ELSE outcome[t] = Returned(_as_json(log[t][1].result)))
    /\ [][\A t \in Callers :
              Len(Submissions(t)') > Len(Submissions(t))
              <=> (submitCount' = submitCount + 1 /\ pc[t] = "submit"
                      /\ pc'[t] = "in_submit")]_vars

\* The delegate raised: the error is the caller's, after one submission,
\* while the other caller has submitted an order of its own
C8_Witness ==
    \E t \in Callers :
        /\ op[t].name = "stop_loss"
        /\ Finished(t)
        /\ outcome[t] = Raised("delegate", "APIError")
        /\ Len(log[t]) = 1
        /\ submitCount = 2

\* ---- C9
\* C9: in a subscribe_price call the handle exists before anything is
\* registered; the registrations made so far are, in order, one per symbol of
\* a prefix of symbols, all on the stream; run is entered at most once, last,
\* and only when every symbol was registered without error; a failed
\* registration ends the call without run.
C9_RegisterThenRun ==
    \A t \in Callers :
        op[t].name = "subscribe_price"
        => /\ pc[t] = "build" => log[t] = << >>
           /\ pc[t] # "build" => ws # 0
           /\ Len(Registrations(t)) <= Len(op[t].symbols)
           /\ \A i \in 1..Len(Registrations(t)) :
                  /\ log[t][i] = Registrations(t)[i]
                  /\ log[t][i].target = "ws"
                  /\ log[t][i].arg = op[t].symbols[i]
                  /\ log[t][i].raised => i = Len(Registrations(t))
           /\ RunsEntered(t) <= 1
           /\ RunsEntered(t) = 1
              => /\ Len(Registrations(t)) = Len(op[t].symbols)
                 /\ \A i \in 1..Len(Registrations(t)) : ~ log[t][i].raised
                 /\ log[t][Len(log[t])].method = "run"
           /\ pc[t] = "running" => RunsEntered(t) = 1
           /\ (Finished(t) /\ outcome[t].kind = "return") => RunsEntered(t) = 1
           /\ (\E i \in 1..Len(Registrations(t)) : Registrations(t)[i].raised)
              => (Finished(t) /\ outcome[t].kind = "raise" /\ RunsEntered(t) = 0)

\* Two symbols registered and run entered, while the other caller is inside a
\* subscribe_price call of its own
C9_Witness ==
    \E t \in Callers, u \in Callers :
        /\ t # u
        /\ op[t].name = "subscribe_price"
        /\ op[t].symbols = << "SPY", "AAPL" >>
        /\ pc[t] = "running"
        /\ Len(log[t]) = 3
        /\ op[u].name = "subscribe_price"
        /\ pc[u] = "register"

\* ---- C10
\* C10 as claimed: each unit of the lookup table is reached from its compact
\* form: n"Min", n"Hour" and n"Day" parse to (n, Minute), (n, Hour), (n, Day).
C10_EveryUnitReachable ==
    ParsedAs(KnownForms \cup HourForms)

====
